---- MODULE Spec2Model ----
(***************************************************************************)
(* Model of scripts/refactor-screen.py: one invocation reads a file,       *)
(* applies four regular-expression substitutions in order, writes the      *)
(* result back and prints a confirmation.                                  *)
(*                                                                         *)
(* A text is a sequence of lexemes.  Each lexeme is the exact character    *)
(* string it stands for, and the lexemes are chosen so that every literal  *)
(* of the four patterns is a concatenation of whole lexemes and no pattern *)
(* can match across the inside of a lexeme: "import" occurs only in        *)
(* IMPORT_OPEN, "const" only in CONST_OPEN, "(" only in PARENS_OPEN and    *)
(* USE_THEME_CALL, "}" only in RBRACE, "." only in DOT, and a lexeme ends  *)
(* in a word character exactly when it is in WordLexemes.  On such texts   *)
(* the lexeme-level matchers below coincide with Python's re on the        *)
(* concatenated characters.                                                *)
(***************************************************************************)
EXTENDS Integers, Sequences, FiniteSets, TLC

VARIABLES argv, exists, readable, writable, disk, content, pc, stdout,
          stderr, exitStatus, ioLog, runs, steps, history

vars == <<argv, exists, readable, writable, disk, content, pc, stdout,
          stderr, exitStatus, ioLog, runs, steps, history>>

(* ------------------------------ bounds --------------------------------- *)
MaxFrags == 4

MaxRuns == 3

(* ------------------------------ lexemes -------------------------------- *)
IMPORT_OPEN == "import {"
SP == " "
NL == "\n"
COLORS == "Colors"
LCOLORS == "colors"
COMMA == ","
DOT == "."
LBRACE == "{"
RBRACE == "}"
FROM_CONSTANTS == "from '@/src/constants';"
FROM_THEME == " from '@/src/contexts/ThemeContext';"
EXPORT_FN == "export default function "
PARENS_OPEN == "() {"
CONST_OPEN == "const {"
USE_THEME == "useTheme"
USE_THEME_CALL == " = useTheme();"
SCREEN == "Screen"
MY == "my"
PALETTE == "Palette"
FONTS == "Fonts"

\* lexemes made of \w characters only
WordLexemes == {COLORS, LCOLORS, USE_THEME, SCREEN, MY, PALETTE, FONTS}

\* lexemes containing the character "}"
ClosingLexemes == {RBRACE}

(* --------------------------- string helpers ---------------------------- *)
\* t[i..] starts with p
StartsWithAt(t, p, i) ==
    /\ i + Len(p) - 1 <= Len(t)
    /\ \A k \in 1..Len(p) : t[i + k - 1] = p[k]

\* re.sub(literal, repl, t) / str.replace: every non-overlapping occurrence,
\* scanning left to right
RECURSIVE ReplaceFrom(_, _, _, _)
ReplaceFrom(t, p, r, i) ==
    IF i > Len(t) THEN <<>>
    ELSE IF StartsWithAt(t, p, i)
         THEN r \o ReplaceFrom(t, p, r, i + Len(p))
         ELSE <<t[i]>> \o ReplaceFrom(t, p, r, i + 1)

StrReplace(t, p, r) == ReplaceFrom(t, p, r, 1)

(* ------------------- step 1: import substitution ----------------------- *)
\* r"import { Colors,"
ImportPattern == <<IMPORT_OPEN, SP, COLORS, COMMA>>

\* variant: the replacement keeps Colors as the first imported name
ThemeImportBlockKeepingColors ==
    <<IMPORT_OPEN, SP, USE_THEME, SP, RBRACE, FROM_THEME, NL, IMPORT_OPEN,
      SP, COLORS, COMMA>>

\* "import { useTheme } from '@/src/contexts/ThemeContext';\nimport {"
ThemeImportBlock ==
    <<IMPORT_OPEN, SP, USE_THEME, SP, RBRACE, FROM_THEME, NL, IMPORT_OPEN>>

\* variant: re.sub(..., count=1), the first occurrence only
RECURSIVE ReplaceFirstFrom(_, _, _, _)
ReplaceFirstFrom(t, p, r, i) ==
    IF i > Len(t) THEN <<>>
    ELSE IF StartsWithAt(t, p, i)
         THEN r \o SubSeq(t, i + Len(p), Len(t))
         ELSE <<t[i]>> \o ReplaceFirstFrom(t, p, r, i + 1)

ImportSubstitutionFirstOnly(t) ==
    ReplaceFirstFrom(t, ImportPattern, ThemeImportBlock, 1)

ImportSubstitution(t) == StrReplace(t, ImportPattern, ThemeImportBlock)

(* --------------------- step 2: import-list cleanup --------------------- *)
\* r"from '@/src/constants';"
ConstantsPattern == <<FROM_CONSTANTS>>

\* lambda m: m.group(0).replace(", Colors", "").replace("Colors, ", "")
CleanupLambda(m) ==
    StrReplace(StrReplace(m, <<COMMA, SP, COLORS>>, <<>>),
               <<COLORS, COMMA, SP>>, <<>>)

\* re.sub(pattern, function, t): each match is replaced by function(match)
RECURSIVE SubWithFrom(_, _, _)
SubWithFrom(t, p, i) ==
    IF i > Len(t) THEN <<>>
    ELSE IF StartsWithAt(t, p, i)
         THEN CleanupLambda(SubSeq(t, i, i + Len(p) - 1))
                  \o SubWithFrom(t, p, i + Len(p))
         ELSE <<t[i]>> \o SubWithFrom(t, p, i + 1)

ImportCleanup(t) == SubWithFrom(t, ConstantsPattern, 1)

(* ----------------------- step 3: hook insertion ------------------------ *)
\* "const { colors } = useTheme();\n  "  (the text between \1 and \2)
HookText ==
    <<CONST_OPEN, SP, LCOLORS, SP, RBRACE, USE_THEME_CALL, NL, SP, SP>>

\* \w+ : index of the last lexeme of the maximal run of word lexemes that
\* starts at i (i - 1 when t[i] is no word lexeme)
RECURSIVE WordRunEnd(_, _)
WordRunEnd(t, i) ==
    IF i <= Len(t) /\ t[i] \in WordLexemes THEN WordRunEnd(t, i + 1)
    ELSE i - 1

\* export default function \w+\(\) \{  matched at s: index of its last
\* lexeme, 0 when it does not match there
HeaderEnd(t, s) ==
    IF s <= Len(t) /\ t[s] = EXPORT_FN
    THEN LET w == WordRunEnd(t, s + 1)
         IN  IF w >= s + 1 /\ w + 1 <= Len(t) /\ t[w + 1] = PARENS_OPEN
             THEN w + 1 ELSE 0
    ELSE 0

\* [^}]*?(const \{) from k on: index of the first "const {" reached without
\* crossing a "}", 0 when there is none
RECURSIVE LazyConst(_, _)
LazyConst(t, k) ==
    IF k > Len(t) THEN 0
    ELSE IF t[k] = CONST_OPEN THEN k
    ELSE IF t[k] \in ClosingLexemes THEN 0
    ELSE LazyConst(t, k + 1)

\* the match of component_pattern that starts at s: index of group 2, or 0
ComponentMatchAt(t, s) ==
    LET e == HeaderEnd(t, s)
    IN  IF e = 0 THEN 0 ELSE LazyConst(t, e + 1)

\* re.sub(..., count=1): the leftmost match only
RECURSIVE ComponentSearch(_, _)
ComponentSearch(t, s) ==
    IF s > Len(t) THEN [start |-> 0, const |-> 0]
    ELSE IF ComponentMatchAt(t, s) # 0
         THEN [start |-> s, const |-> ComponentMatchAt(t, s)]
         ELSE ComponentSearch(t, s + 1)

\* variant: a file that already holds the hook is left alone
HookInsertionUnlessPresent(t) ==
    LET m == ComponentSearch(t, 1)
        hook == SubSeq(HookText, 1, 6)
    IN  IF m.start = 0 \/ \E i \in 1..Len(t) : StartsWithAt(t, hook, i)
        THEN t
        ELSE SubSeq(t, 1, m.const - 1) \o HookText
                 \o SubSeq(t, m.const, Len(t))

\* r"\1const { colors } = useTheme();\n  \2"
HookInsertion(t) ==
    LET m == ComponentSearch(t, 1)
    IN  IF m.start = 0 THEN t
        ELSE SubSeq(t, 1, m.start - 1)
                 \o SubSeq(t, m.start, m.const - 1)      \* \1
                 \o HookText
                 \o <<t[m.const]>>                        \* \2
                 \o SubSeq(t, m.const + 1, Len(t))

(* -------------------- step 4: reference substitution ------------------- *)
\* \b in front of a word character at index i: start of text, or the
\* character before it is not a word character
WordBoundaryBefore(t, i) == i = 1 \/ t[i - 1] \notin WordLexemes

\* variant: r'Colors\.', without the word boundary
RefMatchAtAnywhere(t, i) == StartsWithAt(t, <<COLORS, DOT>>, i)

\* r'\bColors\.' matches at i
RefMatchAt(t, i) ==
    /\ StartsWithAt(t, <<COLORS, DOT>>, i)
    /\ WordBoundaryBefore(t, i)

\* re.sub(r'\bColors\.', 'colors.', t)
RECURSIVE RefSubFrom(_, _)
RefSubFrom(t, i) ==
    IF i > Len(t) THEN <<>>
    ELSE IF RefMatchAt(t, i)
         THEN <<LCOLORS, DOT>> \o RefSubFrom(t, i + 2)
         ELSE <<t[i]>> \o RefSubFrom(t, i + 1)

ReferenceSubstitution(t) == RefSubFrom(t, 1)

(* ------------------------------ program -------------------------------- *)
PROG == "refactor-screen.py"
PATH == "Screen.tsx"

\* print("Usage: python refactor-screen.py <filepath>")
UsageMessage == <<"Usage: python refactor-screen.py <filepath>">>

\* print(f"... Refactored: {filepath}")  (the leading check-mark glyph of the
\* message is not representable in an ASCII module and is left out)
SuccessMessage(filepath) == <<"Refactored: ", filepath>>

\* sys.exit(1)
UsageExitStatus == 1

\* status of an interpreter that dies of an uncaught exception
UncaughtExitStatus == 1

\* status of a script that runs off its end
NormalExitStatus == 0

\* exitStatus while the process is still running
Running == -1

\* len(sys.argv) < 2
MissingArgument(a) == Len(a) < 2

\* variant: sys.exit() without a status
MainUsageExitZero ==
    /\ pc = "main"
    /\ MissingArgument(argv)
    /\ stdout' = Append(stdout, UsageMessage)
    /\ exitStatus' = NormalExitStatus
    /\ pc' = "exited"
    /\ UNCHANGED <<argv, exists, readable, writable, disk, content, stderr,
                   ioLog, runs, steps, history>>

\* if len(sys.argv) < 2: print usage; sys.exit(1)
MainUsage ==
    /\ pc = "main"
    /\ MissingArgument(argv)
    /\ stdout' = Append(stdout, UsageMessage)
    /\ exitStatus' = UsageExitStatus
    /\ pc' = "exited"
    /\ UNCHANGED <<argv, exists, readable, writable, disk, content, stderr,
                   ioLog, runs, steps, history>>

\* refactor_screen(sys.argv[1])
MainCall ==
    /\ pc = "main"
    /\ ~MissingArgument(argv)
    /\ pc' = "read"
    /\ UNCHANGED <<argv, exists, readable, writable, disk, content, stdout,
                   stderr, exitStatus, ioLog, runs, steps, history>>

\* variant: the failure to open is swallowed and the run goes on with an
\* empty text
ReadFailsSwallowed ==
    /\ pc = "read"
    /\ ~(exists /\ readable)
    /\ ioLog' = Append(ioLog, "open_r")
    /\ content' = <<>>
    /\ steps' = <<content'>>
    /\ pc' = "step1"
    /\ UNCHANGED <<argv, exists, readable, writable, disk, stdout, stderr,
                   exitStatus, runs, history>>

\* open(filepath, 'r') raises: the exception propagates out of the script
ReadFails ==
    /\ pc = "read"
    /\ ~(exists /\ readable)
    /\ ioLog' = Append(ioLog, "open_r")
    /\ stderr' = Append(stderr, IF exists THEN "PermissionError"
                                          ELSE "FileNotFoundError")
    /\ exitStatus' = UncaughtExitStatus
    /\ pc' = "exited"
    /\ UNCHANGED <<argv, exists, readable, writable, disk, content, stdout,
                   runs, steps, history>>

\* with open(filepath, 'r') as f: content = f.read()
ReadFile ==
    /\ pc = "read"
    /\ exists /\ readable
    /\ ioLog' = ioLog \o <<"open_r", "read">>
    /\ content' = disk
    /\ steps' = <<disk>>
    /\ pc' = "step1"
    /\ UNCHANGED <<argv, exists, readable, writable, disk, stdout, stderr,
                   exitStatus, runs, history>>

\* content = re.sub(r"import { Colors,", ..., content)
Step1 ==
    /\ pc = "step1"
    /\ content' = ImportSubstitution(content)
    /\ steps' = Append(steps, content')
    /\ pc' = "step2"
    /\ UNCHANGED <<argv, exists, readable, writable, disk, stdout, stderr,
                   exitStatus, ioLog, runs, history>>

\* content = re.sub(r"from '@/src/constants';", lambda ..., content)
Step2 ==
    /\ pc = "step2"
    /\ content' = ImportCleanup(content)
    /\ steps' = Append(steps, content')
    /\ pc' = "step3"
    /\ UNCHANGED <<argv, exists, readable, writable, disk, stdout, stderr,
                   exitStatus, ioLog, runs, history>>

\* content = re.sub(component_pattern, ..., content, count=1)
Step3 ==
    /\ pc = "step3"
    /\ content' = HookInsertion(content)
    /\ steps' = Append(steps, content')
    /\ pc' = "step4"
    /\ UNCHANGED <<argv, exists, readable, writable, disk, stdout, stderr,
                   exitStatus, ioLog, runs, history>>

\* content = re.sub(r'\bColors\.', 'colors.', content)
Step4 ==
    /\ pc = "step4"
    /\ content' = ReferenceSubstitution(content)
    /\ steps' = Append(steps, content')
    /\ pc' = "open_w"
    /\ UNCHANGED <<argv, exists, readable, writable, disk, stdout, stderr,
                   exitStatus, ioLog, runs, history>>

\* open(filepath, 'w') raises
OpenWriteFails ==
    /\ pc = "open_w"
    /\ exists /\ ~writable
    /\ ioLog' = Append(ioLog, "open_w")
    /\ stderr' = Append(stderr, "PermissionError")
    /\ exitStatus' = UncaughtExitStatus
    /\ pc' = "exited"
    /\ UNCHANGED <<argv, exists, readable, writable, disk, content, stdout,
                   runs, steps, history>>

\* variant: mode 'a', which keeps what the file holds
NotTruncated(d) == d

\* what opening in mode 'w' leaves of the file: nothing
Truncated(d) == <<>>

\* open(filepath, 'w'): creates or truncates the file
OpenWrite ==
    /\ pc = "open_w"
    /\ ~(exists /\ ~writable)
    /\ ioLog' = Append(ioLog, "open_w")
    /\ exists' = TRUE
    /\ disk' = Truncated(disk)
    /\ pc' = "write"
    /\ UNCHANGED <<argv, readable, writable, content, stdout, stderr,
                   exitStatus, runs, steps, history>>

\* f.write(content), and the close at the end of the with block
WriteBack ==
    /\ pc = "write"
    /\ ioLog' = Append(ioLog, "write")
    /\ disk' = disk \o content
    /\ pc' = "print"
    /\ UNCHANGED <<argv, exists, readable, writable, content, stdout, stderr,
                   exitStatus, runs, steps, history>>

\* print(f"... Refactored: {filepath}"); the script then runs off its end
PrintSuccess ==
    /\ pc = "print"
    /\ stdout' = Append(stdout, SuccessMessage(argv[2]))
    /\ exitStatus' = NormalExitStatus
    /\ history' = Append(history, disk)
    /\ pc' = "exited"
    /\ UNCHANGED <<argv, exists, readable, writable, disk, content, stderr,
                   ioLog, runs, steps>>

\* the user invokes the script again with the same command line: a fresh
\* process, the file as the previous run left it
Rerun ==
    /\ pc = "exited"
    /\ runs < MaxRuns
    /\ runs' = runs + 1
    /\ pc' = "main"
    /\ content' = <<>>
    /\ stdout' = <<>>
    /\ stderr' = <<>>
    /\ ioLog' = <<>>
    /\ steps' = <<>>
    /\ exitStatus' = Running
    /\ UNCHANGED <<argv, exists, readable, writable, disk, history>>

Next ==
    \/ MainUsage
    \/ MainCall
    \/ ReadFails
    \/ ReadFile
    \/ Step1
    \/ Step2
    \/ Step3
    \/ Step4
    \/ OpenWriteFails
    \/ OpenWrite
    \/ WriteBack
    \/ PrintSuccess
    \/ Rerun

(* ------------------------------- inputs -------------------------------- *)
\* all concatenations of at most n fragments of F
RECURSIVE Texts(_, _)
Texts(F, n) ==
    IF n = 0 THEN {<<>>}
    ELSE LET shorter == Texts(F, n - 1)
         IN  shorter \cup {x \o f : x \in shorter, f \in F}

\* A process about to start.  Files that are there, readable and writable
\* hold any text over F; the command lines and files on which the script
\* fails are combined with the texts of at most one fragment.
InitWith(F) ==
    /\ pc = "main"
    /\ runs = 1
    /\ content = <<>>
    /\ stdout = <<>>
    /\ stderr = <<>>
    /\ ioLog = <<>>
    /\ steps = <<>>
    /\ exitStatus = Running
    /\ \/ /\ argv = <<PROG, PATH>>
          /\ exists = TRUE /\ readable = TRUE /\ writable = TRUE
          /\ disk \in Texts(F, MaxFrags)
       \/ /\ argv \in {<<PROG>>, <<PROG, PATH>>}
          /\ exists \in BOOLEAN /\ readable \in BOOLEAN /\ writable \in BOOLEAN
          /\ disk \in IF exists THEN Texts(F, 1) ELSE {<<>>}
    /\ history = <<disk>>

\* import statements
ImportFragments ==
    { <<IMPORT_OPEN>>, <<SP, COLORS, COMMA>>, <<SP, FONTS>>,
      <<COMMA, SP, COLORS>>, <<COLORS, COMMA, SP>>,
      <<SP, RBRACE, SP, FROM_CONSTANTS>> }

\* component declarations
HookFragments ==
    { <<EXPORT_FN, SCREEN, PARENS_OPEN>>, <<NL, SP, SP>>, <<SP, SP>>,
      <<CONST_OPEN>>, <<LBRACE>>, <<RBRACE>>,
      <<IMPORT_OPEN, SP, COLORS, COMMA>>, <<SP, COLORS, COMMA>> }

\* member accesses
RefFragments ==
    { <<COLORS, DOT>>, <<COLORS>>, <<MY, COLORS, DOT>>,
      <<COLORS, PALETTE, DOT>>, <<IMPORT_OPEN, SP, COLORS, COMMA>>,
      <<EXPORT_FN, COLORS, PARENS_OPEN, CONST_OPEN>> }

\* component declarations among imports whose replacement re-forms the
\* import literal
RerunFragments ==
    { <<EXPORT_FN, SCREEN, PARENS_OPEN>>, <<NL, SP, SP>>, <<CONST_OPEN>>,
      <<LBRACE>>, <<RBRACE>>,
      <<IMPORT_OPEN, SP, COLORS, COMMA, SP, COLORS, COMMA>> }

\* whole statements of a screen file
ScreenFragments ==
    { <<IMPORT_OPEN, SP, COLORS, COMMA>>,
      <<SP, FONTS, SP, RBRACE, SP, FROM_CONSTANTS>>,
      <<EXPORT_FN, SCREEN, PARENS_OPEN>>, <<NL, SP, SP, CONST_OPEN>>,
      <<COLORS, DOT>>, <<MY>>, <<RBRACE>> }

Init == InitWith(ScreenFragments)

Spec == Init /\ [][Next]_vars

InitImport == InitWith(ImportFragments)

SpecImport == InitImport /\ [][Next]_vars

InitHook == InitWith(HookFragments)

SpecHook == InitHook /\ [][Next]_vars

InitRerun == InitWith(RerunFragments)

SpecRerun == InitRerun /\ [][Next]_vars

InitRef == InitWith(RefFragments)

SpecRef == InitRef /\ [][Next]_vars

(* ------------------------- vocabulary of the claims -------------------- *)
\* positions at which p occurs in t
Occurrences(t, p) == {i \in 1..Len(t) : StartsWithAt(t, p, i)}

NumOcc(t, p) == Cardinality(Occurrences(t, p))

\* the literal the import substitution looks for, as the specification
\* spells it
ImportLiteral == <<"import {", " ", "Colors", ",">>

\* the theme-accessor import line, with its newline
ThemeImportLine ==
    <<"import {", " ", "useTheme", " ", "}",
      " from '@/src/contexts/ThemeContext';", "\n">>

\* the hook line, without indentation and newline
HookLine == <<"const {", " ", "colors", " ", "}", " = useTheme();">>

\* lexemes that end in a word character
EndsInWordChar(x) ==
    x \in {"Colors", "colors", "useTheme", "Screen", "my", "Palette", "Fonts"}

\* an occurrence of Colors. that starts at a word boundary
BoundaryRefs(t) ==
    {i \in Occurrences(t, <<"Colors", ".">>) :
        i = 1 \/ ~EndsInWordChar(t[i - 1])}

(* ------------------------------- C4 ------------------------------------ *)
\* number of lexemes of t in front of position i that belong to an
\* occurrence of the import literal, and number of occurrences that start
\* in front of i
InImportLiteral(t, i) ==
    \E m \in Occurrences(t, ImportLiteral) :
        m <= i /\ i < m + Len(ImportLiteral)

ImportsBefore(t, i) ==
    Cardinality({m \in Occurrences(t, ImportLiteral) : m < i})

\* where position i of the text before step 1 lands after step 1
AfterImports(t, i) ==
    i + ImportsBefore(t, i)
          * (Len(ThemeImportLine) + 1 - Len(ImportLiteral))

\* C4: step 1 replaces every occurrence of `import { Colors,` by the
\* theme-accessor import line, a newline and `import {`; every lexeme outside
\* the occurrences (the rest of the import list, imports in which Colors is
\* not first or the whitespace differs) is carried over unchanged, and one
\* theme-accessor import line is added per occurrence and none otherwise.
C4_ImportSubstitution ==
    pc = "step2" =>
        LET a == steps[1]
            b == steps[2]
        IN  /\ Len(b) = AfterImports(a, Len(a) + 1) - 1
            /\ \A i \in 1..Len(a) :
                  ~InImportLiteral(a, i) => b[AfterImports(a, i)] = a[i]
            /\ \A m \in Occurrences(a, ImportLiteral) :
                  StartsWithAt(b, ThemeImportLine \o <<"import {">>,
                               AfterImports(a, m))
            /\ NumOcc(b, ThemeImportLine)
                 = NumOcc(a, ThemeImportLine) + NumOcc(a, ImportLiteral)

\* step 1 has run on a text that holds the literal and an import in which
\* no blank separates the brace from Colors
C4_Witness ==
    /\ pc = "step2"
    /\ NumOcc(steps[1], ImportLiteral) >= 1
    /\ NumOcc(steps[1], <<"import {", "Colors", ",">>) >= 1
    /\ NumOcc(steps[2], ThemeImportLine) = 1
    /\ NumOcc(steps[2], <<"import {", "Colors", ",">>) >= 1

(* ------------------------------- C3 ------------------------------------ *)
\* C3: step 4 turns the Colors of every Colors. that starts at a word boundary
\* into colors and changes no other lexeme (not the Colors of myColors. or of
\* ColorsPalette.); and every such occurrence of the file as read has been
\* converted at the end of the transformation: none is left, and the
\* occurrences of colors. have grown by their number.
C3_ReferenceSubstitution ==
    pc = "open_w" =>
        LET a == steps[4]
            b == steps[5]
            refs == BoundaryRefs(a)
        IN  /\ Len(b) = Len(a)
            /\ \A i \in 1..Len(a) :
                  b[i] = IF i \in refs THEN "colors" ELSE a[i]
            /\ BoundaryRefs(b) = {}
            /\ NumOcc(b, <<"colors", ".">>)
                 = NumOcc(steps[1], <<"colors", ".">>)
                     + Cardinality(BoundaryRefs(steps[1]))
            /\ NumOcc(b, <<"Colors", ".">>)
                 = NumOcc(steps[1], <<"Colors", ".">>)
                     - Cardinality(BoundaryRefs(steps[1]))

\* step 4 has run on a text with two references at a word boundary, a
\* myColors. and a ColorsPalette.
C3_Witness ==
    /\ pc = "open_w"
    /\ Cardinality(BoundaryRefs(steps[1])) >= 2
    /\ NumOcc(steps[1], <<"my", "Colors", ".">>) >= 1
    /\ NumOcc(steps[1], <<"Colors", "Palette", ".">>) >= 1
    /\ NumOcc(steps[5], <<"colors", ".">>) >= 2
    /\ NumOcc(steps[5], <<"my", "Colors", ".">>) >= 1
    /\ NumOcc(steps[5], <<"Colors", "Palette", ".">>) >= 1

(* ------------------------------- C1 ------------------------------------ *)
\* the import lists of t that end in from '@/src/constants'; : pairs of the
\* positions of the opening import { and of the from clause
ConstantsImports(t) ==
    {ij \in (1..Len(t)) \X (1..Len(t)) :
        /\ ij[1] < ij[2]
        /\ t[ij[1]] = "import {"
        /\ t[ij[2]] = "from '@/src/constants';"
        /\ \A k \in (ij[1] + 1)..(ij[2] - 1) :
              t[k] \notin {"import {", "from '@/src/constants';"}}

\* the constants import lists of t name x
ConstantsListNames(t, x) ==
    \E ij \in ConstantsImports(t) :
        \E k \in (ij[1] + 1)..(ij[2] - 1) : t[k] = x

\* a constants import list of t holds Colors as `, Colors` behind Fonts or
\* as `Colors, ` in front of Fonts
ConstantsListHasColorsForm(t) ==
    \E ij \in ConstantsImports(t) :
        \E k \in (ij[1] + 1)..(ij[2] - 4) :
            \/ StartsWithAt(t, <<"Fonts", ",", " ", "Colors">>, k)
            \/ StartsWithAt(t, <<"Colors", ",", " ", "Fonts">>, k)

\* C1: when a constants import list of the file read holds Colors as
\* `, Colors` or as `Colors, `, beside another name, the text written back has
\* no constants import list naming Colors, and still names the other import.
C1_ImportCleanup ==
    (pc = "open_w" /\ ConstantsListHasColorsForm(steps[1])) =>
        /\ ~ConstantsListNames(content, "Colors")
        /\ ConstantsListNames(content, "Fonts")

(* ------------------------------- C2 ------------------------------------ *)
\* position e closes a declaration export default function <identifier>() {
IsFunctionOpening(t, e) ==
    /\ e \in 3..Len(t)
    /\ t[e] = "() {"
    /\ \E s \in 1..(e - 2) :
          /\ t[s] = "export default function "
          /\ \A k \in (s + 1)..(e - 1) : EndsInWordChar(t[k])

\* t with the hook line, indented by two blanks, as a new line after the
\* newline at position k
WithHookLineAfter(t, k) ==
    SubSeq(t, 1, k) \o <<" ", " ">> \o HookLine \o <<"\n">>
        \o SubSeq(t, k + 1, Len(t))

\* c is the first `const {` after the first function opening of t, it
\* stands on a line of its own below the opening, behind blanks only, and no
\* brace lies between the opening and it
IsFirstConst(t, c) ==
    /\ c \in 1..Len(t)
    /\ t[c] = "const {"
    /\ \E e \in 1..(c - 1) :
          /\ IsFunctionOpening(t, e)
          /\ \A d \in 1..(e - 1) : ~IsFunctionOpening(t, d)
          /\ \A k \in (e + 1)..(c - 1) : t[k] \in {"\n", " "}
          /\ \E k \in (e + 1)..(c - 1) : t[k] = "\n"

\* C2: when the first function opening is followed by a line that starts
\* with the first `const {`, step 3 adds exactly one hook line, as a new line
\* of its own in front of that line, indented by two blanks, and leaves that
\* line as it was.
C2_HookPlacement ==
    (pc = "step4" /\ \E c \in 1..Len(steps[3]) : IsFirstConst(steps[3], c)) =>
        \E c \in 1..Len(steps[3]) :
            /\ IsFirstConst(steps[3], c)
            /\ NumOcc(steps[4], HookLine) = NumOcc(steps[3], HookLine) + 1
            /\ \E k \in 1..(c - 1) :
                  /\ steps[3][k] = "\n"
                  /\ \A j \in (k + 1)..(c - 1) : steps[3][j] # "\n"
                  /\ steps[4] = WithHookLineAfter(steps[3], k)

(* ------------------------------- C7 ------------------------------------ *)
\* t with the hook text put in front of position c
WithHookTextAt(t, c) ==
    SubSeq(t, 1, c - 1) \o HookLine \o <<"\n", " ", " ">>
        \o SubSeq(t, c, Len(t))

HasBrace(x) == x \in {"{", "}", "import {", "() {", "const {"}

C10_Original ==
    pc = "exited" => \A k \in 2..Len(history) :
        /\ NumOcc(history[k], ImportLiteral) = 0
        /\ k >= 3 => NumOcc(history[k], ThemeImportLine)
                        = NumOcc(history[k - 1], ThemeImportLine)

\* an occurrence of the literal directly followed by ` Colors,`
Reforms(t) == NumOcc(t, ImportLiteral \o <<" ", "Colors", ",">>) > 0

\* C10, amended: when no occurrence of `import { Colors,` in the file read is
\* directly followed by ` Colors,`, the file written holds no occurrence of
\* the literal, and the next run leaves the number of theme-accessor import
\* lines as it found it.
C10_ImportStable ==
    pc = "exited" => \A k \in 2..Len(history) :
        ~Reforms(history[k - 1]) =>
            /\ NumOcc(history[k], ImportLiteral) = 0
            /\ k < Len(history) =>
                  NumOcc(history[k + 1], ThemeImportLine)
                      = NumOcc(history[k], ThemeImportLine)

\* two runs on a file with two occurrences of the literal: two
\* theme-accessor import lines after the first run and after the second
C10_Witness ==
    /\ Len(history) >= 3
    /\ NumOcc(history[1], ImportLiteral) = 2
    /\ ~Reforms(history[1])
    /\ NumOcc(history[2], ThemeImportLine) = 2
    /\ NumOcc(history[3], ThemeImportLine) = 2

(* ------------------------------- C8 ------------------------------------ *)
\* C8: from the second run on, a run adds a hook line exactly when the hook
\* pattern matches the file the previous run wrote; a run that follows a run
\* which added a hook line adds one more, so the file it writes differs from
\* the one it read and the number of hook lines grows by one with each run.
C8_HookNotIdempotent ==
    pc = "exited" => \A k \in 2..(Len(history) - 1) :
        /\ NumOcc(history[k + 1], HookLine) - NumOcc(history[k], HookLine)
             = IF ComponentSearch(history[k], 1).start # 0 THEN 1 ELSE 0
        /\ NumOcc(history[k], HookLine) > NumOcc(history[k - 1], HookLine)
             => /\ NumOcc(history[k + 1], HookLine)
                     = NumOcc(history[k], HookLine) + 1
                /\ history[k + 1] # history[k]

\* three runs on a file without hook line have left three hook lines
C8_Witness ==
    /\ Len(history) >= 4
    /\ NumOcc(history[1], HookLine) = 0
    /\ NumOcc(history[2], HookLine) = 1
    /\ NumOcc(history[3], HookLine) = 2
    /\ NumOcc(history[4], HookLine) = 3

(* ------------------------------- C5 ------------------------------------ *)
SuccessPrinted == \E i \in 1..Len(stdout) : stdout[i][1] = "Refactored: "

\* C5: a process started without path argument never opens, reads or writes
\* a file, never runs a transformation step and never prints the success
\* message; when it has ended it has printed the usage message and nothing
\* else, with exit status 1.
C5_MissingArgument ==
    Len(argv) < 2 =>
        /\ pc \in {"main", "exited"}
        /\ ioLog = <<>>
        /\ steps = <<>>
        /\ disk = history[1]
        /\ ~SuccessPrinted
        /\ pc = "exited" =>
              /\ stdout = << <<"Usage: python refactor-screen.py <filepath>">> >>
              /\ exitStatus = 1

\* a process started without path argument has ended
C5_Witness ==
    /\ Len(argv) < 2
    /\ pc = "exited"
    /\ exists
    /\ disk # <<>>

(* ------------------------------- C6 ------------------------------------ *)
\* C6: a run whose file is missing or unreadable ends with an error, having
\* tried nothing but the open for reading: the file is neither created nor
\* changed and nothing is printed; no open for writing is tried before the
\* read has completed; and the success message is printed only after the
\* read and the write-back, with the file holding the transformed text.
C6_IOFailure ==
    /\ (Len(argv) >= 2 /\ ~(exists /\ readable) /\ pc = "exited") =>
          /\ exitStatus = 1
          /\ stderr # <<>>
          /\ ioLog = <<"open_r">>
          /\ stdout = <<>>
          /\ disk = history[Len(history)]
    /\ (\E i \in 1..Len(ioLog) : ioLog[i] = "open_w") =>
          /\ Len(ioLog) >= 2
          /\ ioLog[1] = "open_r"
          /\ ioLog[2] = "read"
    /\ SuccessPrinted =>
          /\ ioLog = <<"open_r", "read", "open_w", "write">>
          /\ exists
          /\ Len(steps) = 5
          /\ disk = steps[5]

\* a run on a missing file has ended
C6_Witness ==
    /\ Len(argv) >= 2
    /\ ~exists
    /\ pc = "exited"
    /\ ioLog = <<"open_r">>

(* ------------------------------- C9 ------------------------------------ *)
\* none of the four patterns matches t
NoPatternMatches(t) ==
    /\ NumOcc(t, ImportLiteral) = 0
    /\ NumOcc(t, <<"from '@/src/constants';">>) = 0
    /\ \A c \in 1..Len(t) :
          ~(/\ t[c] = "const {"
            /\ \E e \in 1..(c - 1) :
                  /\ IsFunctionOpening(t, e)
                  /\ \A k \in (e + 1)..(c - 1) : t[k] # "}")
    /\ BoundaryRefs(t) = {}

\* C9: a run on a readable and writable file in which none of the four
\* patterns matches leaves every intermediate text equal to the text read,
\* still rewrites the file, with the very text it read, prints the success
\* message and nothing else, and ends with status 0.
C9_SilentNoOp ==
    (pc = "exited" /\ Len(steps) = 5 /\ writable
        /\ NoPatternMatches(steps[1])) =>
        /\ \A k \in 2..5 : steps[k] = steps[1]
        /\ ioLog = <<"open_r", "read", "open_w", "write">>
        /\ disk = steps[1]
        /\ stdout = << <<"Refactored: ", argv[2]>> >>
        /\ stderr = <<>>
        /\ exitStatus = 0

\* a run on a text that names Colors, but in which no pattern matches, has
\* ended
C9_Witness ==
    /\ pc = "exited"
    /\ Len(steps) = 5
    /\ writable
    /\ NoPatternMatches(steps[1])
    /\ NumOcc(steps[1], <<"Colors", ".">>) >= 1
    /\ Len(steps[1]) >= 5
    /\ disk = steps[1]

====
